---- MODULE Spec2Model ----
(***************************************************************************)
(* UhrforumScraper (web_scraper_ai_studio_code.py): the crawl loop of run, *)
(* the page fetcher, the price and image extraction and the HTML report.   *)
(*                                                                         *)
(* Strings are sequences of one-character strings, so that startswith,     *)
(* replace, concatenation and the regular expression are computed.  The    *)
(* Python value None and an empty string/list are both falsy; an optional  *)
(* value is the empty sequence (None) or a one-element sequence.           *)
(***************************************************************************)
EXTENDS Integers, Sequences, FiniteSets, TLC

VARIABLES
    max_results,    \* run's parameter
    threads_data,   \* run: the accumulated records
    current_page,   \* run: the page cursor (MaxPage stands for "MaxPage or later")
    pc,             \* position in run
    thread_items,   \* run: entries of the current overview page not yet visited by the for loop
    why,            \* which exit of the while loop was taken
    io,             \* the I/O the last step performed, and what the fetch returned
    file,           \* contents of angebote.html (None: no such file)
    writes,         \* number of times angebote.html was opened for writing
    arg,            \* argument of a function called on its own
    ret,            \* its result
    fstate          \* "idle" | "called" | "returned"

vars == <<max_results, threads_data, current_page, pc, thread_items, why, io,
          file, writes, arg, ret, fstate>>

crawl_vars == <<max_results, threads_data, current_page, pc, thread_items, why, io,
                file, writes>>

fn_vars == <<arg, ret, fstate>>

----
\* Bounds of the model.
MaxResults == 2     \* max_results ranges over -1..MaxResults
MaxItems == 2       \* thread entries per overview page
MaxPage == 2        \* page cursor values kept apart; MaxPage stands for every later page
MaxTokens == 4      \* tokens per enumerated price text
MaxImgs == 4        \* img tags per enumerated first post

None == <<>>

\* no request and no write in this step
NoIO == [op |-> "none", page |-> 0, ok |-> FALSE, items |-> 0, post |-> FALSE]

Some(x) == <<x>>

Min(a, b) == IF a < b THEN a ELSE b

----
\* Strings.

\* str.startswith
StartsWith(s, prefix) ==
    /\ Len(prefix) <= Len(s)
    /\ SubSeq(s, 1, Len(prefix)) = prefix

IsSpace(c) == c = " "

\* str.strip(), as get_text(strip=True) applies it to the link's one string
RECURSIVE LStrip(_)
LStrip(s) == IF s # <<>> /\ IsSpace(Head(s)) THEN LStrip(Tail(s)) ELSE s

RECURSIVE RStrip(_)
RStrip(s) ==
    IF s # <<>> /\ IsSpace(s[Len(s)]) THEN RStrip(SubSeq(s, 1, Len(s) - 1)) ELSE s

Strip(s) == RStrip(LStrip(s))

\* self.base_url
base_url == <<"h","t","t","p","s",":","/","/","u","h","r","f","o","r","u","m",".","d","e">>

\* self.erlaubte_praefixe
erlaubte_praefixe ==
    << <<"[","V","e","r","k","a","u","f","]">>,
       <<"[","V","e","r","k","a","u","f","-","T","a","u","s","c","h","]">> >>

----
\* Price extraction: extract_price and clean_price.

IsDigit(c) == c \in {"0", "1", "2", "3", "4", "5", "6", "7", "8", "9"}

DigitVal(c) ==
    CASE c = "0" -> 0 [] c = "1" -> 1 [] c = "2" -> 2 [] c = "3" -> 3 [] c = "4" -> 4
      [] c = "5" -> 5 [] c = "6" -> 6 [] c = "7" -> 7 [] c = "8" -> 8 [] c = "9" -> 9

\* re.IGNORECASE on the letters of the currency words
Lower(c) ==
    CASE c = "E" -> "e" [] c = "U" -> "u" [] c = "R" -> "r" [] c = "O" -> "o"
      [] OTHER -> c

\* the alternation (?:€|Euro|EUR) of price_pattern, in its order
CurrencyAlternatives == << <<"€">>, <<"e","u","r","o">>, <<"e","u","r">> >>

LiteralAt(text, p, lit) ==
    /\ p >= 1
    /\ p + Len(lit) - 1 <= Len(text)
    /\ \A i \in 1..Len(lit) : Lower(text[p + i - 1]) = lit[i]

DigitsAt(text, p, n) ==
    /\ p >= 1
    /\ p + n - 1 <= Len(text)
    /\ \A i \in p..(p + n - 1) : IsDigit(text[i])

SpacesAt(text, p, n) ==
    /\ p + n - 1 <= Len(text)
    /\ \A i \in p..(p + n - 1) : IsSpace(text[i])

\* (?:\.\d{3}) repeated k times from position p
GroupsAt(text, p, k) ==
    \A g \in 0..(k - 1) :
        /\ p + 4 * g <= Len(text)
        /\ text[p + 4 * g] = "."
        /\ DigitsAt(text, p + 4 * g + 1, 3)

\* (?:,\d{2}) at position p
DecimalsAt(text, p) ==
    /\ p <= Len(text)
    /\ text[p] = ","
    /\ DigitsAt(text, p + 1, 2)

\* The ways price_pattern can match from position s: <<n, k, d, j, a>> for
\* n leading digits, k thousands groups, d = 1 when the decimals are taken,
\* j blanks and currency alternative a.
LeadingDigits(text, s) == {n \in 1..3 : DigitsAt(text, s, n)}

ThousandsGroups(text, q) == {k \in 0..((Len(text) + 1 - q) \div 4) : GroupsAt(text, q, k)}

DecimalChoices(text, r) == IF DecimalsAt(text, r) THEN {0, 1} ELSE {0}

Blanks(text, u) == {j \in 0..(Len(text) + 1 - u) : SpacesAt(text, u, j)}

Currencies(text, p) == {a \in 1..3 : LiteralAt(text, p, CurrencyAlternatives[a])}

Attempts(text, s) ==
    UNION { UNION { UNION { UNION {
        { <<n, k, d, j, a>> : a \in Currencies(text, s + n + 4 * k + 3 * d + j) }
            : j \in Blanks(text, s + n + 4 * k + 3 * d) }
            : d \in DecimalChoices(text, s + n + 4 * k) }
            : k \in ThousandsGroups(text, s + n) }
            : n \in LeadingDigits(text, s) }

\* The order in which the backtracking matcher tries the ways: greedy
\* quantifiers take the most first, an alternation its first alternative.
TriedBefore(t, o) ==
    \/ t[1] > o[1]
    \/ t[1] = o[1] /\ t[2] > o[2]
    \/ t[1] = o[1] /\ t[2] = o[2] /\ t[3] > o[3]
    \/ t[1] = o[1] /\ t[2] = o[2] /\ t[3] = o[3] /\ t[4] > o[4]
    \/ t[1] = o[1] /\ t[2] = o[2] /\ t[3] = o[3] /\ t[4] = o[4] /\ t[5] < o[5]

\* re: the match of price_pattern starting at s, None when there is none.
\* group is the capture, next the position after the whole match.
MatchAt(text, s) ==
    LET ts == Attempts(text, s)
    IN  IF ts = {} THEN None
        ELSE LET t == CHOOSE x \in ts : \A o \in ts \ {x} : TriedBefore(x, o)
                 gend == s + t[1] + 4 * t[2] + 3 * t[3] - 1
             IN  Some([group |-> SubSeq(text, s, gend),
                       next |-> gend + 1 + t[4] + Len(CurrencyAlternatives[t[5]])])

\* re.findall(price_pattern, text, re.IGNORECASE): the captures of the
\* non-overlapping matches, scanning from the left
RECURSIVE FindAllFrom(_, _)
FindAllFrom(text, pos) ==
    IF pos > Len(text) THEN <<>>
    ELSE LET m == MatchAt(text, pos)
         IN  IF m = None THEN FindAllFrom(text, pos + 1)
             ELSE <<m[1].group>> \o FindAllFrom(text, m[1].next)

FindAll(text) == FindAllFrom(text, 1)

\* str.replace(old, new) for a one-character old
RECURSIVE Replace(_, _, _)
Replace(s, old, new) ==
    IF s = <<>> THEN <<>>
    ELSE (IF Head(s) = old THEN new ELSE <<Head(s)>>) \o Replace(Tail(s), old, new)

RECURSIVE DigitsToNat(_)
DigitsToNat(ds) ==
    IF ds = <<>> THEN 0
    ELSE 10 * DigitsToNat(SubSeq(ds, 1, Len(ds) - 1)) + DigitVal(ds[Len(ds)])

\* A decimal number mant / 10^exp in lowest form; floats are kept as such pairs.
RECURSIVE Float(_, _)
Float(mant, exp) ==
    IF exp > 0 /\ mant % 10 = 0 THEN Float(mant \div 10, exp - 1) ELSE <<mant, exp>>

\* float(s) on digits with at most one '.': Some(value), None for ValueError
ParseFloat(s) ==
    LET dots == {i \in 1..Len(s) : s[i] = "."}
        ok == /\ Cardinality(dots) <= 1
              /\ \A i \in (1..Len(s)) \ dots : IsDigit(s[i])
              /\ \E i \in 1..Len(s) : IsDigit(s[i])
    IN  IF ~ok THEN None
        ELSE Some(Float(DigitsToNat(SelectSeq(s, IsDigit)),
                        IF dots = {} THEN 0 ELSE Len(s) - (CHOOSE i \in dots : TRUE)))

clean_price(price_str) ==
    LET clean == Replace(Replace(price_str, ".", <<>>), ",", <<".">>)
    IN  ParseFloat(clean)

\* extract_price taking the first match instead of the last
extract_price_first(text) ==
    LET matches == FindAll(text)
    IN  IF matches # <<>> THEN clean_price(matches[1]) ELSE None

extract_price(text) ==
    LET matches == FindAll(text)
    IN  IF matches # <<>> THEN clean_price(matches[Len(matches)]) ELSE None

\* Price texts: every concatenation of at most MaxTokens tokens, and some longer ones.
PriceTokens ==
    { <<"1">>, <<"2","0">>, <<"3","0","5">>, <<".">>, <<",">>, <<" ">>, <<"€">>,
      <<"E","u","r">>, <<"x">> }

RECURSIVE Concat(_)
Concat(ss) == IF ss = <<>> THEN <<>> ELSE Head(ss) \o Concat(Tail(ss))

ExampleText ==
    <<"P","r","e","i","s",":"," ","1",".","2","0","0",",","5","0"," ","€"," ",
      "o","d","e","r"," ","1",".","3","0","0",",","0","0"," ","E","U","R">>

PriceExamples ==
    { ExampleText,
      <<"1","2",".","3","0","5",".","0","2","0",",","9","9"," "," ","e","u","r","o">>,
      <<"1","2","0","0","0"," ","€">>,
      <<"5","€"," ","V","B"," ","1",".","2","0","0",",","5"," ","E","U","R","O"," ","4","9"," ","e","u">>,
      <<"9","9","9","€","7",",","5","0","E","u","r","o","s">> }

PriceTexts ==
    {Concat(ts) : ts \in UNION {[1..n -> PriceTokens] : n \in 0..MaxTokens}}
        \cup PriceExamples

PriceInit ==
    /\ max_results = 0 /\ threads_data = <<>> /\ current_page = 1 /\ pc = "idle"
    /\ thread_items = <<>> /\ why = "none" /\ io = NoIO /\ file = None
    /\ writes = 0
    /\ arg \in PriceTexts
    /\ ret = None
    /\ fstate = "called"

CallExtractPrice ==
    /\ fstate = "called"
    /\ ret' = extract_price(arg)
    /\ fstate' = "returned"
    /\ UNCHANGED <<arg, crawl_vars>>

PriceNext == CallExtractPrice

PriceSpec == PriceInit /\ [][PriceNext]_vars

----
\* The page fetcher.  A response is what requests.get met: exc when it raised
\* (connection error, timeout), else the status and the parsed document.

\* response.raise_for_status(): HTTPError for 4xx and 5xx
RaisesForStatus(status) == 400 <= status /\ status < 600

\* get_soup: the document, or None after any exception
get_soup(response) ==
    IF response.exc THEN None
    ELSE IF RaisesForStatus(response.status) THEN None
    ELSE Some(response.soup)

NoSoup == [thread_items |-> <<>>, first_post |-> None]

FailedResponses ==
    { [exc |-> TRUE, status |-> 0, soup |-> NoSoup],
      [exc |-> FALSE, status |-> 404, soup |-> NoSoup],
      [exc |-> FALSE, status |-> 503, soup |-> NoSoup] }

----
\* Thread pages: scrape_thread_details.

http == <<"h","t","t","p">>

\* the loop over img_tags[:3]
RECURSIVE CollectImages(_)
CollectImages(img_tags) ==
    IF img_tags = <<>> THEN <<>>
    ELSE LET img == Head(img_tags)
             img_url == IF img.src # <<>> THEN img.src ELSE img.data_url
             rest == CollectImages(Tail(img_tags))
         IN  IF img_url # <<>>
             THEN (IF ~StartsWith(img_url, http)
                   THEN <<base_url \o img_url>>
                   ELSE <<img_url>>) \o rest
             ELSE rest

IsBBImage(img) == img.bbImage

scrape_thread_details(response) ==
    LET soup == get_soup(response)
    IN  IF soup = None THEN [price |-> None, images |-> <<>>]
        ELSE LET first_post == soup[1].first_post
             IN  IF first_post # None
                 THEN LET img_tags == SelectSeq(first_post[1].imgs, IsBBImage)
                      IN  [price |-> extract_price(first_post[1].text),
                           images |-> CollectImages(SubSeq(img_tags, 1, Min(3, Len(img_tags))))]
                 ELSE [price |-> None, images |-> <<>>]

ThreadPage(post) ==
    [exc |-> FALSE, status |-> 200, soup |-> [thread_items |-> <<>>, first_post |-> post]]

\* attribute values of img tags; <<>> is an absent or empty attribute
SrcValues ==
    { <<>>,
      <<"/","a",".","p","n","g">>,
      <<"h","t","t","p",":","/","/","x","/","b",".","p","n","g">>,
      <<"h","t","t","p","d","o","c","s","/","c",".","p","n","g">> }

DataUrlValues == { <<>>, <<"/","d",".","p","n","g">> }

ImgTags == [src : SrcValues, data_url : DataUrlValues, bbImage : BOOLEAN]

PostTexts == { <<"5"," ","€">>, <<"V","B">> }

ImagePosts ==
    [text : PostTexts, imgs : UNION {[1..n -> ImgTags] : n \in 0..MaxImgs}]

ImageResponses ==
    FailedResponses \cup {ThreadPage(None)} \cup {ThreadPage(Some(p)) : p \in ImagePosts}

ImageInit ==
    /\ max_results = 0 /\ threads_data = <<>> /\ current_page = 1 /\ pc = "idle"
    /\ thread_items = <<>> /\ why = "none" /\ io = NoIO /\ file = None
    /\ writes = 0
    /\ arg \in ImageResponses
    /\ ret = None
    /\ fstate = "called"

CallScrapeThreadDetails ==
    /\ fstate = "called"
    /\ ret' = scrape_thread_details(arg)
    /\ fstate' = "returned"
    /\ UNCHANGED <<arg, crawl_vars>>

ImageNext == CallScrapeThreadDetails

ImageSpec == ImageInit /\ [][ImageNext]_vars

----
\* The report: save_to_html.

\* format_images: the cell's text, piece by piece
RECURSIVE JoinFragments(_)
JoinFragments(img_list) ==
    IF img_list = <<>> THEN <<>>
    ELSE (<<"<img src=\"">> \o Head(img_list) \o <<"\" width=\"120\" style=\"margin:2px;\">">>)
            \o JoinFragments(Tail(img_list))

\* format_images keeping only the first image
format_images_first(img_list) ==
    IF img_list = <<>> THEN <<"Keine Bilder">>
    ELSE JoinFragments(<<Head(img_list)>>)

format_images(img_list) ==
    IF img_list = <<>> THEN <<"Keine Bilder">>
    ELSE JoinFragments(img_list)

\* df.to_html(escape=False, index=False): one row per record, in order,
\* with the Bilder column formatted
html_table(data) ==
    [i \in 1..Len(data) |->
        [Hersteller_Modell |-> data[i].Hersteller_Modell,
         Preis |-> data[i].Preis,
         Bilder |-> format_images(data[i].Bilder),
         Link |-> data[i].Link]]

\* html_content: the heading's count and the table
html_content(data) == [count |-> Len(data), table |-> html_table(data)]

\* `if not data: return`
NothingToSave(data) == data = <<>>

OldFile == [count |-> 0, table |-> <<>>]

----
\* Overview pages and the crawl loop: run.

Title_Verkauf == <<"[","V","e","r","k","a","u","f","]"," ","R">>

Title_VerkaufTausch ==
    <<"[","V","e","r","k","a","u","f","-","T","a","u","s","c","h","]"," ","O">>

Title_VERKAUF == <<"[","V","E","R","K","A","U","F","]"," ","R">>

Title_Suche == <<"[","S","u","c","h","e","]"," ","R">>

Title_Padded == <<" ","[","V","e","r","k","a","u","f","]"," ","R">>

Href1 == <<"/","t","h","r","e","a","d","s","/","1">>

Href2 == <<"/","t","h","r","e","a","d","s","/","2">>

\* a div.structItem--thread: its title link (None when the selector finds
\* none), the link's text and its href attribute (None when it has none)
Entry(text, href) == [title_element |-> Some([text |-> text, href |-> href])]

Entries ==
    { [title_element |-> None],
      Entry(Title_Verkauf, Some(Href1)),
      Entry(Title_VerkaufTausch, Some(Href2)),
      Entry(Title_VERKAUF, Some(Href1)),
      Entry(Title_Suche, Some(Href2)),
      Entry(Title_Padded, Some(Href2)),
      Entry(Title_Verkauf, None) }

OverviewPage(items) ==
    [exc |-> FALSE, status |-> 200, soup |-> [thread_items |-> items, first_post |-> None]]

OverviewResponses ==
    FailedResponses
        \cup {OverviewPage(items) : items \in UNION {[1..n -> Entries] : n \in 0..MaxItems}}

PostWithPrice ==
    [text |-> <<"5"," ","€">>,
     imgs |-> << [src |-> <<"/","a",".","p","n","g">>, data_url |-> <<>>, bbImage |-> TRUE],
                 [src |-> <<>>, data_url |-> <<"h","t","t","p",":","/","/","x","/","b",".","p","n","g">>,
                  bbImage |-> TRUE] >>]

PostWithout == [text |-> <<"V","B">>, imgs |-> <<>>]

ThreadResponses ==
    FailedResponses
        \cup {ThreadPage(None), ThreadPage(Some(PostWithPrice)), ThreadPage(Some(PostWithout))}

\* any(title.startswith(prefix) for prefix in self.erlaubte_praefixe)
HasAllowedPrefix(title) ==
    \E i \in 1..Len(erlaubte_praefixe) : StartsWith(title, erlaubte_praefixe[i])

\* the for loop's check with > in place of >=
CapReached_late(data, max) == Len(data) > max

\* `if len(threads_data) >= max_results: break`
CapReached(data, max) == Len(data) >= max

\* the while condition with <= in place of <
BelowCap_inclusive(data, max) == Len(data) <= max

\* the while condition
BelowCap(data, max) == Len(data) < max

\* a page with entries taken for one without
NoThreads_ignored(items) == FALSE

\* `if not thread_items`
NoThreads(items) == items = <<>>

\* title_element.get_text(strip=True)
TitleOf(item) == Strip(item.title_element[1].text)

Init ==
    /\ max_results \in -1..MaxResults
    /\ threads_data = <<>>
    /\ current_page = 1
    /\ pc = "while"
    /\ thread_items = <<>>
    /\ why = "none"
    /\ io = NoIO
    /\ file \in {None, Some(OldFile)}
    /\ writes = 0
    /\ arg = <<>> /\ ret = <<>> /\ fstate = "idle"

\* while len(threads_data) < max_results
WhileTest ==
    /\ pc = "while"
    /\ IF BelowCap(threads_data, max_results)
       THEN pc' = "fetch" /\ why' = why
       ELSE pc' = "save" /\ why' = "cap"
    /\ io' = NoIO
    /\ UNCHANGED <<max_results, threads_data, current_page, thread_items, file, writes, fn_vars>>

\* soup = self.get_soup(page_url), the two breaks, thread_items = soup.select(...)
FetchOverview ==
    /\ pc = "fetch"
    /\ \E response \in OverviewResponses :
          LET soup == get_soup(response)
              items == IF soup = None THEN <<>> ELSE soup[1].thread_items
          IN  /\ io' = [op |-> "page", page |-> current_page, ok |-> soup # None,
                        items |-> Len(items), post |-> FALSE]
              /\ IF soup = None
                 THEN pc' = "save" /\ why' = "fetch_failed" /\ thread_items' = thread_items
                 ELSE IF NoThreads(items)
                 THEN pc' = "save" /\ why' = "no_threads" /\ thread_items' = thread_items
                 ELSE pc' = "for" /\ why' = why /\ thread_items' = items
    /\ UNCHANGED <<max_results, threads_data, current_page, file, writes, fn_vars>>

\* current_page += 1, with every page from MaxPage on kept as MaxPage
NextPage == current_page' = Min(current_page + 1, MaxPage)

\* the for loop has visited every entry
ForEnd ==
    /\ pc = "for"
    /\ thread_items = <<>>
    /\ NextPage
    /\ pc' = "while"
    /\ io' = NoIO
    /\ UNCHANGED <<max_results, threads_data, thread_items, why, file, writes, fn_vars>>

\* the break of the for loop
ForBreak ==
    /\ pc = "for"
    /\ thread_items # <<>>
    /\ CapReached(threads_data, max_results)
    /\ NextPage
    /\ pc' = "while"
    /\ io' = NoIO
    /\ UNCHANGED <<max_results, threads_data, thread_items, why, file, writes, fn_vars>>

\* `if not title_element: continue`
SkipNoTitle ==
    /\ pc = "for"
    /\ thread_items # <<>>
    /\ ~CapReached(threads_data, max_results)
    /\ Head(thread_items).title_element = None
    /\ thread_items' = Tail(thread_items)
    /\ io' = NoIO
    /\ UNCHANGED <<max_results, threads_data, current_page, pc, why, file, writes, fn_vars>>

\* the prefix check's continue
SkipPrefix ==
    /\ pc = "for"
    /\ thread_items # <<>>
    /\ ~CapReached(threads_data, max_results)
    /\ Head(thread_items).title_element # None
    /\ ~HasAllowedPrefix(TitleOf(Head(thread_items)))
    /\ thread_items' = Tail(thread_items)
    /\ io' = NoIO
    /\ UNCHANGED <<max_results, threads_data, current_page, pc, why, file, writes, fn_vars>>

\* title_element['href'] on a link without href: KeyError leaves run
RaiseKeyError ==
    /\ pc = "for"
    /\ thread_items # <<>>
    /\ ~CapReached(threads_data, max_results)
    /\ Head(thread_items).title_element # None
    /\ HasAllowedPrefix(TitleOf(Head(thread_items)))
    /\ Head(thread_items).title_element[1].href = None
    /\ pc' = "raised"
    /\ io' = NoIO
    /\ UNCHANGED <<max_results, threads_data, current_page, thread_items, why, file, writes, fn_vars>>

\* link, scrape_thread_details(link) and threads_data.append
ScrapeThread ==
    /\ pc = "for"
    /\ thread_items # <<>>
    /\ ~CapReached(threads_data, max_results)
    /\ Head(thread_items).title_element # None
    /\ HasAllowedPrefix(TitleOf(Head(thread_items)))
    /\ Head(thread_items).title_element[1].href # None
    /\ \E response \in ThreadResponses :
          LET title == TitleOf(Head(thread_items))
              link == base_url \o Head(thread_items).title_element[1].href[1]
              details == scrape_thread_details(response)
              soup == get_soup(response)
          IN  /\ threads_data' = Append(threads_data,
                    [Hersteller_Modell |-> title,
                     Preis |-> details.price,
                     Bilder |-> details.images,
                     Link |-> <<"<a href=\"">> \o link \o <<"\" target=\"_blank\">Link</a>">>])
              /\ io' = [op |-> "thread", page |-> current_page, ok |-> soup # None,
                        items |-> 0,
                        post |-> soup # None /\ soup[1].first_post # None]
    /\ thread_items' = Tail(thread_items)
    /\ UNCHANGED <<max_results, current_page, pc, why, file, writes, fn_vars>>

\* self.save_to_html(threads_data)
SaveToHtml ==
    /\ pc = "save"
    /\ IF NothingToSave(threads_data)
       THEN file' = file /\ writes' = writes /\ io' = NoIO
       ELSE /\ file' = Some(html_content(threads_data))
            /\ writes' = writes + 1
            /\ io' = [NoIO EXCEPT !.op = "write"]
    /\ pc' = "done"
    /\ UNCHANGED <<max_results, threads_data, current_page, thread_items, why, fn_vars>>

Next ==
    \/ WhileTest
    \/ FetchOverview
    \/ ForEnd
    \/ ForBreak
    \/ SkipNoTitle
    \/ SkipPrefix
    \/ RaiseKeyError
    \/ ScrapeThread
    \/ SaveToHtml

Spec == Init /\ [][Next]_vars

\* run is one sequential thread: while it has a next step it takes it
FairSpec == Spec /\ WF_vars(Next)

----
\* What a price is, stated on the text itself and not through the matcher.

IsCurrencyMarkAt(text, p) ==
    /\ p <= Len(text)
    /\ \/ text[p] = "€"
       \/ /\ p + 2 <= Len(text)
          /\ text[p] \in {"e", "E"}
          /\ text[p + 1] \in {"u", "U"}
          /\ text[p + 2] \in {"r", "R"}

\* positions of a digit that only blanks separate from a currency mark
PricedDigits(text) ==
    { d \in 1..Len(text) :
        /\ IsDigit(text[d])
        /\ \E p \in (d + 1)..Len(text) :
              /\ \A i \in (d + 1)..(p - 1) : text[i] = " "
              /\ IsCurrencyMarkAt(text, p) }

HasDecimals(w) == Len(w) >= 3 /\ w[Len(w) - 2] = ","

IntegerPart(w) == IF HasDecimals(w) THEN SubSeq(w, 1, Len(w) - 3) ELSE w

\* 1 to 3 digits, then groups of ".ddd", then optionally ",dd"
InGermanNumberFormat(w) ==
    LET ip == IntegerPart(w)
        n == Len(ip)
    IN  /\ n >= 1
        /\ n % 4 # 0
        /\ \A i \in 1..n :
              IF (n - i + 1) % 4 = 0 THEN ip[i] = "." ELSE IsDigit(ip[i])
        /\ HasDecimals(w) => IsDigit(w[Len(w) - 1]) /\ IsDigit(w[Len(w)])

RECURSIVE Pow10(_)
Pow10(n) == IF n = 0 THEN 1 ELSE 10 * Pow10(n - 1)

\* the value of the digits of ip from position i on, '.' separating thousands
RECURSIVE IntegerValueFrom(_, _)
IntegerValueFrom(ip, i) ==
    IF i > Len(ip) THEN 0
    ELSE LET right == Len(ip) - i
             rest == IntegerValueFrom(ip, i + 1)
         IN  IF ip[i] = "." THEN rest
             ELSE DigitVal(ip[i]) * Pow10(right - (right \div 4)) + rest

\* the value of a number in the German format, in hundredths
GermanNumberCents(w) ==
    100 * IntegerValueFrom(IntegerPart(w), 1)
        + (IF HasDecimals(w) THEN 10 * DigitVal(w[Len(w) - 1]) + DigitVal(w[Len(w)]) ELSE 0)

SetMax(S) == CHOOSE x \in S : \A y \in S : y <= x

SetMin(S) == CHOOSE x \in S : \A y \in S : x <= y

\* the last price of the text: the longest number that ends at the last priced digit
LastPriceCents(text) ==
    LET d == SetMax(PricedDigits(text))
        s == SetMin({b \in 1..d : InGermanNumberFormat(SubSeq(text, b, d))})
    IN  GermanNumberCents(SubSeq(text, s, d))

\* C5: extract_price returns the numeric value of the last price in the text
\* (thousands separators removed, decimal comma read as a decimal point), and
\* absent when the text holds no price.
C5_LastPrice ==
    fstate = "returned" =>
        IF PricedDigits(arg) = {} THEN ret = None
        ELSE ret = Some(Float(LastPriceCents(arg), 2))

\* the spec's example, "Preis: 1.200,50 € oder 1.300,00 EUR", gives 1300.00
C5_Witness ==
    /\ fstate = "returned"
    /\ arg = ExampleText
    /\ FindAll(arg) = << <<"1",".","2","0","0",",","5","0">>,
                        <<"1",".","3","0","0",",","0","0">> >>
    /\ ret = Some(<<1300, 0>>)

----
\* Properties of the crawl loop.

Count == Len(threads_data)

Requests == {"page", "thread"}

LoopPositions == {"while", "fetch", "for"}

\* the entry the for loop is about to visit
Reached ==
    /\ pc = "for"
    /\ thread_items # <<>>
    /\ Count < max_results

ReachedWithTitleLink == Reached /\ Head(thread_items).title_element # None

\* C1 as stated: the number of accumulated records never exceeds max_results.
C1_NeverExceeds == Count <= max_results

\* C1 amended: the number of accumulated records never exceeds max_results when
\* max_results >= 0, and stays 0 when max_results is negative.
C1_NeverExceedsFromZero == Count <= (IF max_results >= 0 THEN max_results ELSE 0)

\* the cap is reached in the middle of a page whose next entry qualifies
C1_Witness ==
    /\ max_results >= 1
    /\ Count = max_results
    /\ pc = "for"
    /\ thread_items # <<>>
    /\ Head(thread_items) = Entry(Title_Verkauf, Some(Href1))

\* C2: from the moment the count equals max_results no entry of the page is
\* visited, no record is added and no page or thread is requested; the for loop
\* is left, the while loop is left, and the loop is left for the cap only then.
C2_StopsAtCap ==
    /\ [](why = "cap" => (Count = max_results \/ max_results < 0))
    /\ [][Count = max_results =>
            /\ io'.op \notin Requests
            /\ threads_data' = threads_data
            /\ thread_items' = thread_items
            /\ pc = "for" => pc' = "while"
            /\ pc = "while" => pc' = "save"]_vars

\* the report was written after the cap cut a page short before a qualifying entry
C2_Witness ==
    /\ pc = "done"
    /\ why = "cap"
    /\ max_results >= 1
    /\ Count = max_results
    /\ writes = 1
    /\ thread_items # <<>>
    /\ Head(thread_items) = Entry(Title_VerkaufTausch, Some(Href2))

EndedEarly == why \in {"fetch_failed", "no_threads"}

\* C3: a failed overview fetch or an overview page without entries ends the
\* crawl at once: nothing more is requested, the records are kept and rendered,
\* and the file is written only if there is a record.
C3_EndsOnFailedOrEmptyPage ==
    /\ [][(pc = "fetch" /\ io'.op = "page" /\ (~io'.ok \/ io'.items = 0)) =>
            /\ pc' = "save"
            /\ EndedEarly'
            /\ threads_data' = threads_data]_vars
    /\ [][EndedEarly =>
            /\ io'.op \notin Requests
            /\ threads_data' = threads_data
            /\ pc' \in {"save", "done"}]_vars
    /\ []((pc = "done" /\ EndedEarly) =>
            /\ writes = 1 <=> Count > 0
            /\ writes = 1 => file = Some(html_content(threads_data)))

\* the second page could not be fetched and the first page's record was rendered
C3_Witness ==
    /\ pc = "done"
    /\ why = "fetch_failed"
    /\ current_page = 2
    /\ Count = 1
    /\ Count < max_results
    /\ writes = 1

SaleLiterals ==
    { <<"[","V","e","r","k","a","u","f","]">>,
      <<"[","V","e","r","k","a","u","f","-","T","a","u","s","c","h","]">> }

\* the title is one of the two literals followed by anything
IsSaleTitle(title) ==
    \E n \in 0..Len(title) : SubSeq(title, 1, n) \in SaleLiterals

\* C4: an entry reached with its title link present yields a record if and only
\* if its title starts with "[Verkauf]" or "[Verkauf-Tausch]"; any other entry
\* is skipped without a request and without a record.
C4_KeptIffSalePrefix ==
    [][ReachedWithTitleLink =>
          IF IsSaleTitle(TitleOf(Head(thread_items)))
          THEN /\ Len(threads_data') = Count + 1
               /\ threads_data'[Count + 1].Hersteller_Modell = TitleOf(Head(thread_items))
          ELSE /\ threads_data' = threads_data
               /\ io'.op = "none"
               /\ thread_items' = Tail(thread_items)]_vars

\* C8: run never ends with an exception.
C8_NeverRaises == pc # "raised"

\* C9: every qualifying entry visited yields exactly one record with exactly one
\* thread request, with no price and no images when the fetch failed or the
\* first post is missing, and the for loop goes on with the next entry.
C9_OneRecordPerQualifying ==
    [][(ReachedWithTitleLink /\ HasAllowedPrefix(TitleOf(Head(thread_items)))) =>
          /\ Len(threads_data') = Count + 1
          /\ SubSeq(threads_data', 1, Count) = threads_data
          /\ io'.op = "thread"
          /\ (~io'.ok \/ ~io'.post) =>
                /\ threads_data'[Count + 1].Preis = None
                /\ threads_data'[Count + 1].Bilder = <<>>
          /\ pc' = "for"
          /\ thread_items' = Tail(thread_items)]_vars

\* C10: the crawl loop is eventually left.
C10_LoopTerminates == <>(pc \notin LoopPositions)

----
\* Properties of the report.

Thumbnails(cell) == Cardinality({k \in 1..Len(cell) : cell[k] = "<img src=\""})

RowMatches(row, record) ==
    /\ row.Hersteller_Modell = record.Hersteller_Modell
    /\ row.Preis = record.Preis
    /\ row.Link = record.Link
    /\ IF record.Bilder = <<>>
       THEN row.Bilder = <<"Keine Bilder">>
       ELSE /\ Thumbnails(row.Bilder) = Len(record.Bilder)
            /\ \A k \in 1..Len(row.Bilder) : row.Bilder[k] # "Keine Bilder"

\* C7: rendering no records leaves the file as it is; rendering N > 0 records
\* writes the file once, with N rows in record order, each image cell holding
\* one thumbnail per image of the record, or the placeholder for none.
C7_Render ==
    /\ [](writes <= 1)
    /\ [][(pc = "save" /\ pc' = "done") =>
            IF Count = 0
            THEN file' = file /\ writes' = writes /\ io'.op # "write"
            ELSE /\ writes' = writes + 1
                 /\ io'.op = "write"
                 /\ file' # None
                 /\ file'[1].count = Count
                 /\ Len(file'[1].table) = Count
                 /\ \A i \in 1..Count : RowMatches(file'[1].table[i], threads_data[i])]_vars

\* a report of two rows, one with the placeholder and one with two thumbnails
C7_Witness ==
    /\ pc = "done"
    /\ writes = 1
    /\ Count = 2
    /\ threads_data[1].Bilder = <<>>
    /\ Len(threads_data[2].Bilder) = 2
    /\ file[1].table[1].Bilder = <<"Keine Bilder">>
    /\ Thumbnails(file[1].table[2].Bilder) = 2

----
\* Properties of the thread details.

IsAbsoluteUrl(url) ==
    \/ StartsWith(url, <<"h","t","t","p",":","/","/">>)
    \/ StartsWith(url, <<"h","t","t","p","s",":","/","/">>)

Absolute(url) == IF IsAbsoluteUrl(url) THEN url ELSE base_url \o url

\* the content images of the first post, None for a page without one
ContentImages(response) ==
    IF response.exc \/ response.status # 200 \/ response.soup.first_post = None
    THEN <<>>
    ELSE SelectSeq(response.soup.first_post[1].imgs, IsBBImage)

UrlOf(img) == IF img.src # <<>> THEN img.src ELSE img.data_url

HasUrl(img) == UrlOf(img) # <<>>

\* C6: at most 3 URLs come back, those of the first content images in document
\* order, each absolute: a relative one is prefixed with the base URL.
C6_ImagesAbsolute ==
    fstate = "returned" =>
        LET imgs == ContentImages(arg)
            first == SelectSeq(SubSeq(imgs, 1, Min(3, Len(imgs))), HasUrl)
        IN  /\ Len(ret.images) <= 3
            /\ Len(ret.images) = Len(first)
            /\ \A i \in 1..Len(ret.images) :
                  /\ IsAbsoluteUrl(ret.images[i])
                  /\ ret.images[i] = Absolute(UrlOf(first[i]))

====
